---- MODULE Spec2Model ----
(***************************************************************************)
(* Model of the Bac Bo signal bot (src/main.py): the BettingStrategy       *)
(* state machine (execute_strategy, delete_gale_messages, reset_state,     *)
(* request_stop), the Scoreboard counters, and the polling driver          *)
(* run_bot_loop with the three-outcome window that sync_fetch_results      *)
(* scrapes.  The Telegram bot is the environment: a send either returns a  *)
(* fresh message id or fails (send_telegram_message returns None).         *)
(***************************************************************************)
EXTENDS Integers, Sequences, FiniteSets, TLC

\* ------------------------------------------------------------------ bounds
\* max_gales is 1 or MaxGalesCfg
MaxGalesCfg == 2
\* execute_strategy is called only while total_attempts < MaxAttempts
MaxAttempts == 2
\* a send can succeed (return an id) only while next_message_id <= MaxMessageId
MaxMessageId == 2
\* run_bot_loop fetches the page only while total_attempts < MaxLoopAttempts
MaxLoopAttempts == 1
\* at most MaxBurst rounds are played between two fetches of the page
MaxBurst == 2

\* ------------------------------------------------------- program constants
\* Python's None for a message id (ids returned by Telegram are positive)
None == 0
\* results_text.split()[::-1][:3][::-1]: the page window holds three results
WindowLen == 3
\* initial_results_required = 3 in main()
initial_results_required == 3

Outcomes == {"P", "B", "T"}

\* the catalog of main(), and two more catalogs the constructor accepts
MainStrategies ==
  << [pattern |-> <<"P", "P", "P">>, bet |-> "B"],
     [pattern |-> <<"B", "B", "B">>, bet |-> "P"],
     [pattern |-> <<"B", "B", "P">>, bet |-> "P"],
     [pattern |-> <<"P", "P", "B">>, bet |-> "B"] >>

SingleStrategy == << [pattern |-> <<"P", "P", "P">>, bet |-> "B"] >>

\* two rules with the same pattern, and a shorter rule between them
DuplicateStrategies ==
  << [pattern |-> <<"B", "B", "P">>, bet |-> "P"],
     [pattern |-> <<"P", "P">>, bet |-> "B"],
     [pattern |-> <<"B", "B", "P">>, bet |-> "B"] >>

Catalogs == {MainStrategies, SingleStrategy, DuplicateStrategies}

\* every non-empty list of at most WindowLen outcomes
Windows == UNION {[1..n -> Outcomes] : n \in 1..WindowLen}

\* --------------------------------------------------------------- helpers
Last(s) == s[Len(s)]

\* Python list[-k:] for k >= 0 (list[-0:] is the whole list)
PyTail(list, k) ==
  IF k = 0 \/ k >= Len(list) THEN list
  ELSE SubSeq(list, Len(list) - k + 1, Len(list))

\* Python list[:k] for 0 <= k <= len
PyHead(list, k) == SubSeq(list, 1, k)

\* line 178: results_list[-(len(pattern) - 1):] == pattern[:len(pattern) - 1]
NearMatch(list, pattern) ==
  PyTail(list, Len(pattern) - 1) = PyHead(pattern, Len(pattern) - 1)

\* line 182: results_list[-len(pattern):] == pattern
FullMatch(list, pattern) ==
  PyTail(list, Len(pattern)) = pattern

\* ------------------------------------------------------------------ state
VARIABLES
  \* BettingStrategy.__init__ (lines 148-163)
  strategies, max_gales,
  is_entry_allowed, is_green, is_gale_active, is_red,
  current_strategy,        \* index of the active rule in strategies, None if none
  current_bet,             \* "None" or the active rule's bet
  gale_count, prepare_message_sent, prepare_message_id, gale_message_ids,
  wait_after_gale, stop_requested,
  \* the module-level Scoreboard (lines 87-92)
  wins, losses, consecutive_wins, total_attempts,
  \* the Telegram channel: the id the next delivered message gets
  next_message_id,
  \* run_bot_loop (lines 482-510) and the page it scrapes
  page,                    \* the last WindowLen results shown on the page
  new_rounds,              \* rounds played since the page was last fetched
  prev_results, can_check_patterns,
  loop_pc,                 \* "check" | "fetch" | "done"
  \* the most recent operation, for stating the claims
  op,                      \* which operation ran last
  results_list,            \* the argument of the most recent execute_strategy call
  branch,                  \* the branch of execute_strategy that call took
  sent, deleted,           \* the Notifier calls that call made, in order
  undeleted,               \* the deletes among them that raised TelegramError
  ever_deleted,            \* every message id a delete was issued for so far
  cycle_calls,             \* processed calls since the entry of the open cycle
  cycle_misses,            \* how many outcomes in a row, up to the last one
                           \* processed in the open cycle, missed its bet
  pre,                     \* gale_count and prepare_message_sent before that call
  fetched,                 \* what the most recent loop iteration saw
  scenario_calls           \* the windows passed so far, while they follow a scenario

session_vars ==
  << is_entry_allowed, is_green, is_gale_active, is_red, current_strategy,
     current_bet, gale_count, prepare_message_sent, prepare_message_id,
     gale_message_ids, wait_after_gale >>

scoreboard_vars == << wins, losses, consecutive_wins, total_attempts >>

call_vars ==
  << results_list, branch, sent, deleted, undeleted, ever_deleted, cycle_calls,
     cycle_misses, pre, scenario_calls >>

loop_vars == << page, new_rounds, prev_results, can_check_patterns, loop_pc, fetched >>

vars ==
  << strategies, max_gales, session_vars, stop_requested, scoreboard_vars,
     next_message_id, loop_vars, op, call_vars >>

\* the objects as one record, so that the methods are operators on it
Self ==
  [ strategies |-> strategies, max_gales |-> max_gales,
    is_entry_allowed |-> is_entry_allowed, is_green |-> is_green,
    is_gale_active |-> is_gale_active, is_red |-> is_red,
    current_strategy |-> current_strategy, current_bet |-> current_bet,
    gale_count |-> gale_count, prepare_message_sent |-> prepare_message_sent,
    prepare_message_id |-> prepare_message_id,
    gale_message_ids |-> gale_message_ids,
    wait_after_gale |-> wait_after_gale, stop_requested |-> stop_requested,
    wins |-> wins, losses |-> losses, consecutive_wins |-> consecutive_wins,
    total_attempts |-> total_attempts, next_message_id |-> next_message_id,
    sent |-> <<>>, deleted |-> <<>>, undeleted |-> <<>>, delete_fails |-> {},
    branch |-> "none" ]

Message(kind, bet, attempt) == [kind |-> kind, bet |-> bet, attempt |-> attempt]

\* ------------------------------------------------------------- Scoreboard
\* variant: the attempt is counted twice
record_win_twice(s) ==
  [s EXCEPT !.wins = @ + 1, !.consecutive_wins = @ + 1, !.total_attempts = @ + 2]

\* lines 94-98
record_win(s) ==
  [s EXCEPT !.wins = @ + 1, !.consecutive_wins = @ + 1, !.total_attempts = @ + 1]

\* variant: the streak is not reset
record_loss_keeps_streak(s) ==
  [s EXCEPT !.losses = @ + 1, !.total_attempts = @ + 1]

\* variant: the attempt is not counted
record_loss_uncounted(s) ==
  [s EXCEPT !.losses = @ + 1, !.consecutive_wins = 0]

\* lines 100-104
record_loss(s) ==
  [s EXCEPT !.losses = @ + 1, !.total_attempts = @ + 1, !.consecutive_wins = 0]

\* --------------------------------------------------------------- Notifier
\* send_telegram_message whose return value the caller drops (lines 125-145)
send_telegram_message(s, msg) == [s EXCEPT !.sent = Append(@, msg)]

\* the id send_telegram_message returns: a fresh one, or None when it failed
sent_message_id(s, ok) == IF ok THEN s.next_message_id ELSE None

\* send_telegram_message whose return value the caller keeps
send_tracked(s, msg, ok) ==
  [s EXCEPT !.sent = Append(@, msg),
            !.next_message_id = IF ok THEN @ + 1 ELSE @]

\* bot.delete_message inside try/except TelegramError (lines 184-187, 248-251);
\* the k-th delete of the call raises when k is in delete_fails
delete_message(s, message_id) ==
  [s EXCEPT !.deleted = Append(@, message_id),
            !.undeleted = IF (Len(s.deleted) + 1) \in s.delete_fails
                          THEN Append(@, message_id) ELSE @]

\* ------------------------------------------------------- BettingStrategy
RECURSIVE delete_each(_, _)
\* lines 247-251: for message_id in self.gale_message_ids
delete_each(s, ids) ==
  IF ids = <<>> THEN s ELSE delete_each(delete_message(s, Head(ids)), Tail(ids))

\* variant: the list is cleared and no delete is issued
delete_gale_messages_none(s) == [s EXCEPT !.gale_message_ids = <<>>]

\* lines 245-252
delete_gale_messages(s) ==
  [delete_each(s, s.gale_message_ids) EXCEPT !.gale_message_ids = <<>>]

\* variant: gale_count is not cleared
reset_state_keeps_count(s, wait) ==
  [s EXCEPT !.is_entry_allowed = TRUE, !.is_green = FALSE,
            !.is_gale_active = FALSE, !.is_red = FALSE,
            !.current_strategy = None, !.current_bet = "None",
            !.prepare_message_sent = FALSE,
            !.prepare_message_id = None, !.gale_message_ids = <<>>,
            !.wait_after_gale = wait]

\* variant: current_bet is not cleared
reset_state_keeps_bet(s, wait) ==
  [s EXCEPT !.is_entry_allowed = TRUE, !.is_green = FALSE,
            !.is_gale_active = FALSE, !.is_red = FALSE,
            !.current_strategy = None,
            !.gale_count = 0, !.prepare_message_sent = FALSE,
            !.prepare_message_id = None, !.gale_message_ids = <<>>,
            !.wait_after_gale = wait]

\* lines 254-266
reset_state(s, wait) ==
  [s EXCEPT !.is_entry_allowed = TRUE, !.is_green = FALSE,
            !.is_gale_active = FALSE, !.is_red = FALSE,
            !.current_strategy = None, !.current_bet = "None",
            !.gale_count = 0, !.prepare_message_sent = FALSE,
            !.prepare_message_id = None, !.gale_message_ids = <<>>,
            !.wait_after_gale = wait]

\* lines 178-181: the prepare advisory of one rule
prepare_step(s, i, list, ok) ==
  IF NearMatch(list, s.strategies[i].pattern) /\ ~s.prepare_message_sent
  THEN [send_tracked(s, Message("prepare", "None", 0), ok)
          EXCEPT !.prepare_message_id = sent_message_id(s, ok),
                 !.prepare_message_sent = TRUE,
                 !.branch = "prepare"]
  ELSE s

\* variant: the prepare message is deleted without testing its id
confirm_entry_deletes_unsent(s, i) ==
  LET bet == s.strategies[i].bet
      d   == delete_message(s, s.prepare_message_id)
      m   == send_telegram_message(d, Message("entry", bet, 0))
  IN [m EXCEPT !.is_entry_allowed = FALSE, !.is_green = TRUE,
               !.is_gale_active = TRUE, !.current_strategy = i,
               !.current_bet = bet, !.prepare_message_sent = FALSE,
               !.prepare_message_id = None, !.branch = "entry"]

\* variant: the entry leaves prepare_message_sent set
confirm_entry_keeps_flag(s, i) ==
  LET bet == s.strategies[i].bet
      d   == IF s.prepare_message_id # None
             THEN delete_message(s, s.prepare_message_id) ELSE s
      m   == send_telegram_message(d, Message("entry", bet, 0))
  IN [m EXCEPT !.is_entry_allowed = FALSE, !.is_green = TRUE,
               !.is_gale_active = TRUE, !.current_strategy = i,
               !.current_bet = bet,
               !.prepare_message_id = None, !.branch = "entry"]

\* lines 183-196: the entry on rule i
confirm_entry(s, i) ==
  LET bet == s.strategies[i].bet
      d   == IF s.prepare_message_id # None
             THEN delete_message(s, s.prepare_message_id) ELSE s
      m   == send_telegram_message(d, Message("entry", bet, 0))
  IN [m EXCEPT !.is_entry_allowed = FALSE, !.is_green = TRUE,
               !.is_gale_active = TRUE, !.current_strategy = i,
               !.current_bet = bet, !.prepare_message_sent = FALSE,
               !.prepare_message_id = None, !.branch = "entry"]

\* variant: the entry tests the flag as it was before this rule's prepare step
RECURSIVE strategy_loop_stale_flag(_, _, _, _)
strategy_loop_stale_flag(s, i, list, ok) ==
  IF i > Len(s.strategies) THEN s
  ELSE LET p == prepare_step(s, i, list, ok)
       IN IF FullMatch(list, p.strategies[i].pattern) /\ s.prepare_message_sent
          THEN confirm_entry(p, i)
          ELSE strategy_loop_stale_flag(p, i + 1, list, ok)

RECURSIVE strategy_loop(_, _, _, _)
\* lines 175-197: for strategy in self.strategies, from rule i on
strategy_loop(s, i, list, ok) ==
  IF i > Len(s.strategies) THEN s
  ELSE LET p == prepare_step(s, i, list, ok)
       IN IF FullMatch(list, p.strategies[i].pattern) /\ p.prepare_message_sent
          THEN confirm_entry(p, i)
          ELSE strategy_loop(p, i + 1, list, ok)

\* lines 211-216 and 219-224: a win is recorded and the cycle is closed
resolve_win(s) ==
  LET r == record_win(s)
      a == send_telegram_message(r, Message("win", "None", 0))
      b == send_telegram_message(a, Message("scoreboard", "None", 0))
      d == delete_gale_messages(b)
  IN [reset_state(d, TRUE) EXCEPT !.branch = "win"]

\* lines 238-243: a loss is recorded and the cycle is closed
resolve_loss(s) ==
  LET r == record_loss(s)
      a == send_telegram_message(r, Message("loss", "None", 0))
      b == send_telegram_message(a, Message("scoreboard", "None", 0))
      d == delete_gale_messages(b)
  IN [reset_state(d, TRUE) EXCEPT !.branch = "loss"]

\* variant: the gales are never used up
gale_step_uncapped(s, ok) ==
  LET n  == s.gale_count + 1
      m  == send_tracked(s, Message("gale", s.current_bet, n), ok)
      id == sent_message_id(s, ok)
  IN [m EXCEPT !.gale_count = n,
               !.gale_message_ids = IF id # None THEN Append(@, id) ELSE @,
               !.branch = "gale"]

\* variant: the cap is reached one gale late
gale_step_late_cap(s, ok) ==
  LET n  == s.gale_count + 1
      m  == send_tracked(s, Message("gale", s.current_bet, n), ok)
      id == sent_message_id(s, ok)
  IN [m EXCEPT !.gale_count = n,
               !.gale_message_ids = IF id # None THEN Append(@, id) ELSE @,
               !.is_gale_active = IF n > s.max_gales THEN FALSE ELSE @,
               !.is_red = IF n > s.max_gales THEN TRUE ELSE @,
               !.branch = "gale"]

\* variant: the gale is counted only when its advisory was delivered
gale_step_needs_delivery(s, ok) ==
  LET n  == IF ok THEN s.gale_count + 1 ELSE s.gale_count
      m  == send_tracked(s, Message("gale", s.current_bet, n), ok)
      id == sent_message_id(s, ok)
  IN [m EXCEPT !.gale_count = n,
               !.gale_message_ids = IF id # None THEN Append(@, id) ELSE @,
               !.is_gale_active = IF n >= s.max_gales THEN FALSE ELSE @,
               !.is_red = IF n >= s.max_gales THEN TRUE ELSE @,
               !.branch = "gale"]

\* lines 227-235: one more gale
gale_step(s, ok) ==
  LET n  == s.gale_count + 1
      m  == send_tracked(s, Message("gale", s.current_bet, n), ok)
      id == sent_message_id(s, ok)
  IN [m EXCEPT !.gale_count = n,
               !.gale_message_ids = IF id # None THEN Append(@, id) ELSE @,
               !.is_gale_active = IF n >= s.max_gales THEN FALSE ELSE @,
               !.is_red = IF n >= s.max_gales THEN TRUE ELSE @,
               !.branch = "gale"]

\* lines 201-208: the retraction of a prepare advisory that found no entry
retract_prepare(s) ==
  IF s.prepare_message_sent /\ s.prepare_message_id # None
  THEN [delete_message(s, s.prepare_message_id)
          EXCEPT !.prepare_message_sent = FALSE, !.prepare_message_id = None,
                 !.branch = "retract"]
  ELSE [s EXCEPT !.branch = "no_strategy"]

\* lines 170-172
cooldown_step(s) == [s EXCEPT !.wait_after_gale = FALSE, !.branch = "cooldown"]

\* line 210
bet_hit(s, list) == Last(list) = s.current_bet /\ s.is_green

\* variant: the tie protects only before the cap
tie_hit_before_cap(s, list) == Last(list) = "T" /\ s.is_green /\ ~s.is_red

\* variant: a tie is not a win
tie_hit_never(s, list) == FALSE

\* line 218
tie_hit(s, list) == Last(list) = "T" /\ s.is_green

\* line 226
gale_due(s, list) == Last(list) # s.current_bet /\ s.is_green /\ s.is_gale_active

\* lines 174-243: the call once it is neither stopped nor cooling down
evaluate(s, list, ok) ==
  IF s.is_entry_allowed
  THEN strategy_loop([s EXCEPT !.branch = "idle"], 1, list, ok)
  ELSE IF s.current_strategy = None THEN retract_prepare(s)
  ELSE IF bet_hit(s, list) THEN resolve_win(s)
  ELSE IF tie_hit(s, list) THEN resolve_win(s)
  ELSE IF gale_due(s, list) THEN gale_step(s, ok)
  ELSE IF s.is_red THEN resolve_loss(s)
  ELSE [s EXCEPT !.branch = "nothing"]

\* variant: the call after a resolution is evaluated like any other
execute_strategy_no_cooldown(s, list, ok) ==
  IF s.stop_requested THEN [s EXCEPT !.branch = "stopped"]
  ELSE evaluate([s EXCEPT !.wait_after_gale = FALSE], list, ok)

\* variant: the call does not look at stop_requested
execute_strategy_ignores_stop(s, list, ok) ==
  IF s.wait_after_gale THEN cooldown_step(s) ELSE evaluate(s, list, ok)

\* lines 165-243; ok: whether the send whose id the call keeps is delivered
execute_strategy(s, list, ok) ==
  IF s.stop_requested THEN [s EXCEPT !.branch = "stopped"]
  ELSE IF s.wait_after_gale THEN cooldown_step(s)
  ELSE evaluate(s, list, ok)

\* ---------------------------------------------------------------- scenarios
\* Scenario A of spec.md section 8 as calls: the window P,P,P, then P,P,B
ScenarioA == << <<"P", "P", "P">>, <<"P", "P", "B">> >>
Scenarios == {ScenarioA}
IsPrefix(a, b) == Len(a) <= Len(b) /\ SubSeq(b, 1, Len(a)) = a
Diverged == << <<>> >>
FollowScenario(calls, list) ==
  IF calls # Diverged /\ ~stop_requested
     /\ \E sc \in Scenarios : IsPrefix(Append(calls, list), sc)
  THEN Append(calls, list) ELSE Diverged

\* ------------------------------------------------------------------- Init
NoCall == [gale_count |-> 0, prepare_message_sent |-> FALSE]

NoFetch == [kind |-> "none", calls |-> 0]

Init ==
  /\ strategies \in Catalogs
  /\ max_gales \in {1, MaxGalesCfg}
  /\ is_entry_allowed = TRUE /\ is_green = FALSE
  /\ is_gale_active = FALSE /\ is_red = FALSE
  /\ current_strategy = None /\ current_bet = "None"
  /\ gale_count = 0
  /\ prepare_message_sent = FALSE /\ prepare_message_id = None
  /\ gale_message_ids = <<>>
  /\ wait_after_gale = FALSE /\ stop_requested = FALSE
  /\ wins = 0 /\ losses = 0 /\ consecutive_wins = 0 /\ total_attempts = 0
  /\ next_message_id = 1
  /\ page = <<>> /\ new_rounds = 0
  /\ prev_results = <<>> /\ can_check_patterns = FALSE
  /\ loop_pc = "check"
  /\ op = "init" /\ results_list = <<>> /\ branch = "none"
  /\ sent = <<>> /\ deleted = <<>> /\ pre = NoCall
  /\ undeleted = <<>> /\ ever_deleted = {} /\ cycle_calls = 0
  /\ cycle_misses = 0
  /\ fetched = NoFetch
  /\ scenario_calls = <<>>

\* ---------------------------------------------------------------- actions
\* whether a send may be delivered: ids are handed out up to MaxMessageId
Deliveries == IF next_message_id <= MaxMessageId THEN BOOLEAN ELSE {FALSE}

\* which deletes of a call may raise: any of those the call s issues
DeleteFailures(s) == SUBSET (1..Len(s.deleted))

\* whether the send whose id a call keeps may be delivered, for the call s
SendOutcomes(s) ==
  IF \E k \in 1..Len(s.sent) : s.sent[k].kind \in {"prepare", "gale"}
  THEN Deliveries ELSE {FALSE}

\* the assignments of one execute_strategy(list) call
Execute(list) ==
  \E r0 \in {execute_strategy(Self, list, FALSE)} :
  \E ok \in SendOutcomes(r0) :
  \E r1 \in {IF ok THEN execute_strategy(Self, list, TRUE) ELSE r0} :
  \E fails \in DeleteFailures(r1) :
  \E r \in {IF fails = {} THEN r1
            ELSE execute_strategy([Self EXCEPT !.delete_fails = fails], list, ok)} :
     /\ is_entry_allowed' = r.is_entry_allowed
     /\ is_green' = r.is_green
     /\ is_gale_active' = r.is_gale_active
     /\ is_red' = r.is_red
     /\ current_strategy' = r.current_strategy
     /\ current_bet' = r.current_bet
     /\ gale_count' = r.gale_count
     /\ prepare_message_sent' = r.prepare_message_sent
     /\ prepare_message_id' = r.prepare_message_id
     /\ gale_message_ids' = r.gale_message_ids
     /\ wait_after_gale' = r.wait_after_gale
     /\ wins' = r.wins /\ losses' = r.losses
     /\ consecutive_wins' = r.consecutive_wins
     /\ total_attempts' = r.total_attempts
     /\ next_message_id' = r.next_message_id
     /\ results_list' = list
     /\ branch' = r.branch
     /\ sent' = r.sent /\ deleted' = r.deleted
     /\ undeleted' = r.undeleted
     /\ ever_deleted' = ever_deleted \cup {r.deleted[k] : k \in 1..Len(r.deleted)}
     /\ cycle_calls' = IF r.current_strategy = None \/ current_strategy = None
                       THEN 0
                       ELSE IF stop_requested THEN cycle_calls
                       ELSE cycle_calls + 1
     /\ cycle_misses' = IF r.current_strategy = None \/ current_strategy = None
                        THEN 0
                        ELSE IF stop_requested THEN cycle_misses
                        ELSE IF Last(list) \notin {current_bet, "T"}
                        THEN cycle_misses + 1
                        ELSE 0
     /\ pre' = [gale_count |-> gale_count,
                prepare_message_sent |-> prepare_message_sent]
     /\ scenario_calls' = FollowScenario(scenario_calls, list)
     /\ UNCHANGED << strategies, max_gales, stop_requested >>

\* a caller passes execute_strategy a window
CallExecuteStrategy ==
  /\ total_attempts < MaxAttempts
  /\ \E list \in Windows : Execute(list)
  /\ op' = "execute_strategy"
  /\ UNCHANGED loop_vars

Next == CallExecuteStrategy

\* the state machine under every sequence of execute_strategy calls
Spec == Init /\ [][Next]_vars

\* ------------------------------------------------------------ run_bot_loop
\* lines 268-270
request_stop ==
  /\ ~stop_requested
  /\ loop_pc # "done"
  /\ stop_requested' = TRUE
  /\ op' = "request_stop"
  /\ UNCHANGED << strategies, max_gales, session_vars, scoreboard_vars,
                  next_message_id, loop_vars, call_vars >>

\* the game plays a round and the page shows its result; a round played while
\* a fetch is pending is the same to the loop as one played just before it
RoundPlayed ==
  /\ loop_pc = "check"
  /\ new_rounds < MaxBurst
  /\ \E o \in Outcomes : page' = PyTail(Append(page, o), WindowLen)
  /\ new_rounds' = new_rounds + 1
  /\ op' = "round"
  /\ UNCHANGED << strategies, max_gales, session_vars, stop_requested,
                  scoreboard_vars, next_message_id, prev_results,
                  can_check_patterns, loop_pc, fetched, call_vars >>

\* lines 484-487: the head of the loop
LoopCheck ==
  /\ loop_pc = "check"
  /\ loop_pc' = IF stop_requested THEN "done" ELSE "fetch"
  /\ op' = "check"
  /\ UNCHANGED << strategies, max_gales, session_vars, stop_requested,
                  scoreboard_vars, next_message_id, page, new_rounds,
                  prev_results, can_check_patterns, fetched, call_vars >>

\* lines 489-493: the fetch ended in an error
LoopFetchError ==
  /\ loop_pc = "fetch"
  /\ loop_pc' = "check"
  /\ fetched' = [kind |-> "error", calls |-> 0]
  /\ op' = "fetch_error"
  /\ UNCHANGED << strategies, max_gales, session_vars, stop_requested,
                  scoreboard_vars, next_message_id, page, new_rounds,
                  prev_results, can_check_patterns, call_vars >>

\* variant: no deduplication
batch_changed_always(list, prev) == TRUE

\* line 501: not prev_results or results_list != prev_results
batch_changed(list, prev) == prev = <<>> \/ list # prev

\* lines 504-507: whether execute_strategy is called for the new batch
checks_patterns(list) ==
  can_check_patterns \/ Len(list) >= initial_results_required

\* lines 489-510: the fetch returned the page's window
LoopFetch ==
  /\ loop_pc = "fetch"
  /\ total_attempts < MaxLoopAttempts
  /\ loop_pc' = "check"
  /\ new_rounds' = 0
  /\ op' = "fetch"
  /\ UNCHANGED page
  /\ IF page # <<>> /\ batch_changed(page, prev_results)
     THEN /\ prev_results' = page
          /\ can_check_patterns' = checks_patterns(page)
          /\ IF checks_patterns(page)
             THEN Execute(page)
             ELSE UNCHANGED << strategies, max_gales, session_vars,
                               stop_requested, scoreboard_vars,
                               next_message_id, call_vars >>
          /\ fetched' = [kind |-> "changed",
                         calls |-> IF checks_patterns(page) THEN 1 ELSE 0]
     ELSE /\ fetched' = [kind |-> IF page = <<>> THEN "empty" ELSE "same",
                         calls |-> 0]
          /\ UNCHANGED << strategies, max_gales, session_vars, stop_requested,
                          scoreboard_vars, next_message_id, prev_results,
                          can_check_patterns, call_vars >>

NextLoop ==
  RoundPlayed \/ LoopCheck \/ LoopFetchError \/ LoopFetch \/ request_stop

\* lines 424-431: main() builds the strategy that run_bot_loop drives
InitLoop == Init /\ strategies = MainStrategies /\ max_gales = MaxGalesCfg

\* the state machine driven by run_bot_loop
SpecLoop == InitLoop /\ [][NextLoop]_vars

\* ================================================================= claims
Range(seq) == {seq[k] : k \in 1..Len(seq)}
Rules == 1..Len(strategies)

\* this step is an execute_strategy call (made directly, or by run_bot_loop)
Called == op' = "execute_strategy" \/ (op' = "fetch" /\ fetched'.calls = 1)
\* ... that is not ignored because a stop was requested
Processed == Called /\ ~stop_requested

\* the last Len(pattern) outcomes of the window are the pattern
TailEquals(list, pattern) ==
  /\ Len(list) >= Len(pattern)
  /\ \A k \in 1..Len(pattern) : list[Len(list) - Len(pattern) + k] = pattern[k]

SentKinds(log) == {log[k].kind : k \in 1..Len(log)}

WinRecorded ==
  /\ wins' = wins + 1 /\ consecutive_wins' = consecutive_wins + 1
  /\ total_attempts' = total_attempts + 1 /\ losses' = losses

LossRecorded ==
  /\ losses' = losses + 1 /\ consecutive_wins' = 0
  /\ total_attempts' = total_attempts + 1 /\ wins' = wins

SessionReset ==
  /\ is_entry_allowed' /\ ~is_green' /\ ~is_gale_active' /\ ~is_red'
  /\ current_strategy' = None /\ current_bet' = "None" /\ gale_count' = 0
  /\ ~prepare_message_sent' /\ prepare_message_id' = None
  /\ gale_message_ids' = <<>>

\* C1 (as claimed): when a prepare advisory is pending, no rule is active and
\* the window of the next processed call completes no catalog pattern, the call
\* deletes the prepare message (when its id is set), clears
\* prepare_message_sent and prepare_message_id, sends no entry advisory and
\* leaves the session idle.
C1_FailedNearMatchRetracted ==
  [][ ( /\ Processed /\ ~wait_after_gale
        /\ prepare_message_sent /\ current_strategy = None
        /\ \A i \in Rules : ~TailEquals(results_list', strategies[i].pattern) )
      => ( /\ ~prepare_message_sent' /\ prepare_message_id' = None
           /\ (prepare_message_id # None => prepare_message_id \in Range(deleted'))
           /\ "entry" \notin SentKinds(sent')
           /\ current_strategy' = None /\ is_entry_allowed' ) ]_vars

\* C2 (as claimed): once is_red is set, the next processed call records exactly
\* one loss and no win whatever the outcome is, and enters the cooldown.
C2_LossWhateverTheOutcome ==
  [][ (Processed /\ is_red) => (LossRecorded /\ wait_after_gale') ]_vars

\* C2 (amended): once is_red is set, the next processed call resolves the
\* cycle and enters the cooldown: it records exactly one loss and no win when
\* the outcome is neither the rule's bet nor a tie, and exactly one win and no
\* loss when it is the bet or a tie.
C2_ResolutionAfterCap ==
  [][ (Processed /\ is_red)
      => ( /\ wait_after_gale' /\ SessionReset
           /\ IF Last(results_list') \in {current_bet, "T"}
              THEN WinRecorded ELSE LossRecorded ) ]_vars

C2_Witness ==
  /\ branch = "loss" /\ pre.gale_count = max_gales
  /\ losses = 1 /\ wins = 1 /\ consecutive_wins = 0 /\ wait_after_gale

\* C3: whenever a rule is active, at any stage and after the cap too, a
\* processed call whose outcome is a tie records a win and no loss, whatever
\* the rule's bet is.
C3_TieProtection ==
  [][ (Processed /\ current_strategy # None /\ Last(results_list') = "T")
      => (WinRecorded /\ wait_after_gale' /\ current_strategy' = None) ]_vars

C3_Witness ==
  /\ branch = "win" /\ Last(results_list) = "T"
  /\ max_gales = 2 /\ pre.gale_count = max_gales /\ wins = 1 /\ losses = 0

\* C4: when a rule is active before the cap and the processed outcome is the
\* rule's bet, the call records exactly one win, resets the session fields and
\* enters the cooldown; and with the catalog [PPP -> B] and max_gales = 2 the
\* calls P,P,P then P,P,B end with wins = 1, losses = 0, consecutive_wins = 1.
C4_WinOnBet ==
  /\ [][ (Processed /\ current_strategy # None /\ ~is_red
          /\ Last(results_list') = current_bet)
         => (WinRecorded /\ SessionReset /\ wait_after_gale') ]_vars
  /\ [](( /\ strategies = SingleStrategy /\ max_gales = 2
          /\ scenario_calls = ScenarioA )
        => (wins = 1 /\ losses = 0 /\ consecutive_wins = 1
            /\ total_attempts = 1))

C4_Witness ==
  /\ strategies = SingleStrategy /\ max_gales = 2
  /\ scenario_calls = ScenarioA
  /\ branch = "win" /\ Last(results_list) = "B" /\ pre.gale_count = 0
  /\ wins = 1 /\ wait_after_gale

\* C5: every resolution sets wait_after_gale, and the call made while it is
\* set only clears it: no message is sent or deleted, no rule becomes active,
\* and the Scoreboard and every other session field stay as they were, also
\* when the window equals a catalog pattern.
C5_CooldownSuppression ==
  /\ [][ (Called /\ total_attempts' # total_attempts) => wait_after_gale' ]_vars
  /\ [][ (Called /\ wait_after_gale)
         => ( /\ (~stop_requested => ~wait_after_gale')
              /\ sent' = <<>> /\ deleted' = <<>>
              /\ UNCHANGED << is_entry_allowed, is_green, is_gale_active, is_red,
                              current_strategy, current_bet, gale_count,
                              prepare_message_sent, prepare_message_id,
                              gale_message_ids, stop_requested,
                              scoreboard_vars, next_message_id >> ) ]_vars

C5_Witness ==
  /\ branch = "cooldown" /\ ~wait_after_gale
  /\ strategies = MainStrategies /\ results_list = <<"P", "P", "P">>
  /\ current_strategy = None /\ total_attempts = 1

\* a rule whose pattern is the tail of the window, examined while a prepare
\* advisory is pending: pending before the call, or raised in it by the
\* near-match of that rule or of a rule listed before it
PreparedMatch(list) ==
  \E i \in Rules :
    /\ TailEquals(list, strategies[i].pattern)
    /\ \/ prepare_message_sent
       \/ \E j \in 1..i : NearMatch(list, strategies[j].pattern)

RuleActivated ==
  /\ current_strategy' # None /\ current_bet' # "None"
  /\ current_bet' = strategies[current_strategy'].bet
  /\ gale_count' = 0 /\ ~is_entry_allowed'
  /\ "entry" \in SentKinds(sent')

\* C6 (as claimed): whenever entry is allowed, the session is not cooling down
\* and the tail of the window equals the pattern of some rule, the processed
\* call makes a rule active, whether or not a prepare advisory was pending.
C6_EntryOnAnyFullMatch ==
  [][ ( /\ Processed /\ is_entry_allowed /\ ~wait_after_gale
        /\ \E i \in Rules : TailEquals(results_list', strategies[i].pattern) )
      => RuleActivated ]_vars

\* C6 (amended): whenever entry is allowed, the session is not cooling down
\* and the tail of the window equals the pattern of a rule that is examined
\* while a prepare advisory is pending (pending before the call, or raised in
\* this call by the near-match of that rule or of an earlier one), the
\* processed call makes a rule active with gale_count = 0 and sends the entry
\* advisory.
C6_EntryOnPreparedMatch ==
  [][ ( /\ Processed /\ is_entry_allowed /\ ~wait_after_gale
        /\ PreparedMatch(results_list') )
      => RuleActivated ]_vars

C6_Witness ==
  /\ branch = "entry" /\ pre.prepare_message_sent
  /\ current_strategy # None /\ current_bet = strategies[current_strategy].bet
  /\ gale_count = 0 /\ ~prepare_message_sent

\* the first rule in catalog order whose pattern is the tail of the window
FirstMatch(list) ==
  CHOOSE i \in Rules :
    /\ TailEquals(list, strategies[i].pattern)
    /\ \A j \in 1..(i - 1) : ~TailEquals(list, strategies[j].pattern)

\* C7 (as claimed): whenever a call activates a rule, that rule is the first
\* rule in catalog order whose pattern equals the tail of the window, and
\* current_bet is that rule's bet.
C7_FirstMatchWins ==
  [][ (Called /\ current_strategy = None /\ current_strategy' # None)
      => ( /\ \E i \in Rules : TailEquals(results_list', strategies[i].pattern)
           /\ current_strategy' = FirstMatch(results_list')
           /\ current_bet' = strategies[FirstMatch(results_list')].bet ) ]_vars

\* C8 (as claimed): when the batch run_bot_loop fetched differs from the
\* previous one while a rule is active, execute_strategy is called once for
\* each round played since the previous fetch.
C8_NoOutcomeSkipped ==
  [][ ( /\ op' = "fetch" /\ page # <<>> /\ page # prev_results
        /\ current_strategy # None )
      => fetched'.calls = new_rounds ]_vars

\* C9: run_bot_loop calls execute_strategy only for a fetch that returned no
\* error and a non-empty batch different from the previous one; an error, an
\* empty batch or the same batch leaves prev_results, the session and the
\* Scoreboard unchanged, makes no Notifier call and returns to the head of the
\* loop.
C9_FeedGate ==
  [][ (op' \in {"fetch", "fetch_error"})
      => LET fresh == op' = "fetch" /\ page # <<>> /\ page # prev_results
         IN /\ fetched'.calls = 1 => fresh
            /\ ~fresh => /\ fetched'.calls = 0
                         /\ loop_pc' = "check"
                         /\ UNCHANGED << prev_results, can_check_patterns,
                                         session_vars, scoreboard_vars,
                                         next_message_id, call_vars >> ]_vars

C9_Witness ==
  /\ op = "fetch" /\ fetched.kind = "same" /\ fetched.calls = 0
  /\ page = prev_results /\ current_strategy # None /\ loop_pc = "check"

\* C10: every execute_strategy call leaves the Scoreboard unchanged or changes
\* it by exactly one record_win or exactly one record_loss; it changes it
\* exactly when it resolves an active cycle; calls made with no active rule
\* (prepare, entry, cooldown) and calls that add a gale leave it unchanged.
C10_OneRecordPerCall ==
  [][ Called
      => ( /\ UNCHANGED scoreboard_vars \/ WinRecorded \/ LossRecorded
           /\ (current_strategy = None \/ gale_count' > gale_count)
                => UNCHANGED scoreboard_vars
           /\ (current_strategy # None /\ current_strategy' = None)
                => total_attempts' = total_attempts + 1 ) ]_vars

C10_Witness ==
  /\ branch = "loss" /\ wins = 1 /\ losses = 1 /\ total_attempts = 2
  /\ consecutive_wins = 0

\* C11: in every reachable state total_attempts = wins + losses; wins, losses
\* and total_attempts never decrease; and consecutive_wins decreases only by
\* being set to 0 in a step that records a loss.
C11_ScoreboardInvariant ==
  /\ [](total_attempts = wins + losses)
  /\ [][ /\ wins' >= wins /\ losses' >= losses
         /\ total_attempts' >= total_attempts
         /\ consecutive_wins' < consecutive_wins
              => (consecutive_wins' = 0 /\ losses' = losses + 1) ]_vars

C11_Witness ==
  /\ wins = 1 /\ losses = 1 /\ total_attempts = 2 /\ consecutive_wins = 1

\* whether the session has the fields C12 names, and issues the advisories, as
\* the session record s
SameControl(s) ==
  /\ is_entry_allowed = s.is_entry_allowed /\ is_green = s.is_green
  /\ is_gale_active = s.is_gale_active /\ is_red = s.is_red
  /\ current_strategy = s.current_strategy /\ current_bet = s.current_bet
  /\ gale_count = s.gale_count
  /\ prepare_message_sent = s.prepare_message_sent
  /\ wait_after_gale = s.wait_after_gale
  /\ wins = s.wins /\ losses = s.losses
  /\ consecutive_wins = s.consecutive_wins
  /\ total_attempts = s.total_attempts
  /\ sent = s.sent

\* the session as it is when no send ever returned a handle
NoHandles ==
  [Self EXCEPT !.prepare_message_id = None, !.gale_message_ids = <<>>,
               !.next_message_id = 1]

\* the message ids the session tracks
Tracked ==
  Range(gale_message_ids)
    \cup (IF prepare_message_id # None THEN {prepare_message_id} ELSE {})

\* C12: every execute_strategy call leaves the phase flags, current_strategy,
\* current_bet, gale_count, prepare_message_sent, wait_after_gale and the
\* Scoreboard counters exactly as the same call does in the session in which
\* every send failed (so the sequence of these values does not depend on the
\* Notifier); a call in which no send returned a handle tracks no new handle;
\* and a handle whose delete failed, like any handle a delete was issued for,
\* is no longer tracked.
C12_NotifierFailuresHarmless ==
  /\ [][ Called =>
           /\ \E t \in {execute_strategy(NoHandles, results_list', FALSE)} :
                 SameControl(t)'
           /\ next_message_id' = next_message_id => Tracked' \subseteq Tracked
           /\ Range(undeleted') \cap Tracked' = {} ]_vars
  /\ [](ever_deleted \cap Tracked = {})

\* a loss is recorded after a gale advisory failed to send, and the delete of
\* the one that was sent failed
C12_Witness ==
  /\ branch = "loss" /\ pre.gale_count = 2
  /\ deleted = <<1>> /\ undeleted = <<1>>
  /\ gale_message_ids = <<>>

C14_EscalationStep ==
  [][ ( /\ Processed /\ current_strategy # None /\ gale_count < max_gales
        /\ Last(results_list') \notin {current_bet, "T"} )
      => ( /\ gale_count' = gale_count + 1
           /\ sent' = << Message("gale", current_bet, gale_count + 1) >>
           /\ deleted' = <<>>
           /\ gale_message_ids' =
                IF next_message_id' = next_message_id + 1
                THEN Append(gale_message_ids, next_message_id)
                ELSE gale_message_ids
           /\ next_message_id' \in {next_message_id, next_message_id + 1}
           /\ UNCHANGED << scoreboard_vars, current_strategy, current_bet,
                           is_green, is_entry_allowed, wait_after_gale >>
           /\ is_red' <=> (gale_count' = max_gales)
           /\ is_gale_active' <=> (gale_count' < max_gales) ) ]_vars

\* the first gale of a cycle with max_gales = 2: not yet exhausted
C14_Witness ==
  /\ branch = "gale" /\ gale_count = 1 /\ max_gales = 2
  /\ ~is_red /\ is_gale_active /\ gale_message_ids = <<1>>

\* C15: in every reachable state with no rule active gale_count is 0; and a
\* step in which gale_count decreases is an execute_strategy call made while a
\* rule is active that sets gale_count to 0, records exactly one win or loss,
\* leaves no rule active and enters the cooldown; and a step that confirms an
\* entry starts the cycle with gale_count 0.
C15_StageMonotonicity ==
  /\ [](current_strategy = None => gale_count = 0)
  /\ [][ /\ gale_count' < gale_count
             => ( /\ Processed /\ current_strategy # None
                  /\ gale_count' = 0
                  /\ WinRecorded \/ LossRecorded
                  /\ current_strategy' = None /\ wait_after_gale' )
         /\ (current_strategy = None /\ current_strategy' # None)
             => gale_count' = 0
         /\ (current_strategy # None /\ current_strategy' # None)
             => (current_strategy' = current_strategy
                 /\ gale_count' >= gale_count) ]_vars

\* a win after one gale: gale_count went from 1 back to 0
C15_Witness ==
  /\ branch = "win" /\ pre.gale_count = 1 /\ gale_count = 0
  /\ wait_after_gale /\ current_strategy = None

\* whether a sequence holds no value twice
NoRepeat(seq) == \A j, k \in 1..Len(seq) : seq[j] = seq[k] => j = k

\* C16: every delete an execute_strategy call issues, whether or not it or any
\* earlier Notifier call failed, is for a message id that a send has returned
\* (an id handed out before the call, or the id of the prepare advisory the
\* same call sent first and then replaces by the entry), no id is deleted twice
\* in one call, and no id is deleted that an earlier call already deleted.
C16_RetractOnceAfterSend ==
  [][ Called =>
        /\ \A k \in 1..Len(deleted') :
              /\ deleted'[k] \in 1..(next_message_id' - 1)
              /\ deleted'[k] >= next_message_id
                   => ( /\ branch' = "entry" /\ deleted' = << next_message_id >>
                        /\ sent'[1].kind = "prepare" /\ sent'[2].kind = "entry" )
        /\ NoRepeat(deleted')
        /\ Range(deleted') \cap ever_deleted = {}
        /\ ever_deleted' = ever_deleted \cup Range(deleted') ]_vars

\* the prepare advisory of a second cycle is deleted at its entry, after the one
\* of the first cycle was deleted at its own
C16_Witness ==
  /\ branch = "entry" /\ deleted = <<2>> /\ ever_deleted = {1, 2}
  /\ prepare_message_id = None

\* C17: a call that records a win or a loss issues one delete for each id in
\* gale_message_ids, in order, and no other, and leaves gale_message_ids empty
\* and prepare_message_id None; and in every reachable state with no rule
\* active gale_message_ids is empty.
C17_NoStageHandleOutlivesCycle ==
  /\ [](current_strategy = None => gale_message_ids = <<>>)
  /\ [][ (Called /\ (WinRecorded \/ LossRecorded))
         => ( /\ deleted' = gale_message_ids
              /\ gale_message_ids' = <<>>
              /\ prepare_message_id' = None
              /\ current_strategy' = None ) ]_vars

\* a loss after two gales whose advisories were both delivered
C17_Witness ==
  /\ branch = "loss" /\ deleted = <<1, 2>> /\ gale_message_ids = <<>>
  /\ pre.gale_count = 2

\* C18 (as claimed): an execute_strategy call made after request_stop while a
\* rule is active is still processed (it is not ignored), and run_bot_loop
\* leaves its loop only when no rule is active, so that a cycle that is open
\* when the stop is requested is played to its win or loss.
C18_StopAfterCurrentCycle ==
  [][ /\ (Called /\ stop_requested /\ current_strategy # None)
            => branch' # "stopped"
      /\ (loop_pc # "done" /\ loop_pc' = "done")
            => current_strategy = None ]_vars

\* C19: in every reachable state is_entry_allowed holds exactly when
\* current_strategy is None, exactly when current_bet is None and exactly when
\* is_green is false; is_gale_active implies is_green; is_red implies is_green
\* and not is_gale_active; prepare_message_sent or wait_after_gale implies
\* that no rule is active; and no call has taken the branch of lines 200-208.
C19_FlagConsistency ==
  /\ is_entry_allowed <=> (current_strategy = None)
  /\ is_entry_allowed <=> (current_bet = "None")
  /\ is_entry_allowed <=> ~is_green
  /\ is_gale_active => is_green
  /\ is_red => (is_green /\ ~is_gale_active)
  /\ (prepare_message_sent \/ wait_after_gale) => current_strategy = None
  /\ branch \notin {"retract", "no_strategy"}

\* the gales are used up: a rule is active, is_red is set
C19_Witness ==
  /\ is_red /\ is_green /\ ~is_gale_active /\ ~is_entry_allowed
  /\ current_strategy # None /\ current_bet # "None" /\ gale_count = max_gales

\* C20: with max_gales >= 1 and no stop requested, while a rule is active at
\* most max_gales calls have been processed since its entry without resolving
\* the cycle and 0 <= gale_count <= max_gales; every processed call of a cycle
\* either leaves the rule active, as one more such call, or resolves the cycle
\* with exactly one win or loss recorded and the cooldown entered; and the call
\* that follows max_gales such calls resolves it. So the cycle is resolved by
\* the (max_gales + 1)-th call after its entry at the latest.
C20_BoundedResolution ==
  /\ [](max_gales >= 1)
  /\ []( current_strategy # None
          => (cycle_calls \in 0..max_gales /\ gale_count \in 0..max_gales) )
  /\ [][ /\ (current_strategy = None /\ current_strategy' # None)
            => cycle_calls' = 0
         /\ (Processed /\ current_strategy # None) =>
              /\ current_strategy' # None
                   => ( /\ current_strategy' = current_strategy
                        /\ cycle_calls' = cycle_calls + 1
                        /\ UNCHANGED scoreboard_vars )
              /\ current_strategy' = None
                   => ((WinRecorded \/ LossRecorded) /\ wait_after_gale')
              /\ cycle_calls = max_gales => current_strategy' = None ]_vars

\* the first cycle is lost at the last call the bound allows, the third after
\* its entry
C20_Witness ==
  /\ branch = "loss" /\ max_gales = 2 /\ pre.gale_count = 2
  /\ total_attempts = 1 /\ losses = 1 /\ wait_after_gale
  /\ current_strategy = None

\* C21: with max_gales >= 1, a step changes losses only by adding 1, and only
\* as a processed execute_strategy call made while a rule is active with
\* gale_count = max_gales, whose own outcome is neither the rule's bet nor a
\* tie, after the max_gales outcomes processed before it since the entry were
\* each neither the rule's bet nor a tie (max_gales + 1 misses in a row); in
\* particular no loss is recorded while no rule is active.
C21_LossNeedsFullRunOfMisses ==
  /\ [](max_gales >= 1)
  /\ [][ losses' # losses
           => ( /\ Processed /\ LossRecorded
                /\ current_strategy # None
                /\ gale_count = max_gales
                /\ cycle_misses = max_gales /\ cycle_calls = max_gales
                /\ Last(results_list') \notin {current_bet, "T"} ) ]_vars

\* two cycles lost in a row with max_gales = 1, each after two misses
C21_Witness ==
  /\ branch = "loss" /\ max_gales = 1 /\ pre.gale_count = 1
  /\ losses = 2 /\ wins = 0 /\ Last(results_list) # "T"

====
